---- MODULE Spec2Model ----
(***************************************************************************)
(* A model of the blinkt crate (src/src/lib.rs): the Pixel encoding, the   *)
(* two SerialOutput transports (BlinktGpio: bit-banging, BlinktSpi:        *)
(* buffered hardware SPI), and the Blinkt device with its setters,         *)
(* show(), cleanup() and Drop.                                             *)
(*                                                                         *)
(* Rust indexes from 0 and TLA+ sequences from 1: value[k] of the source   *)
(* is element k+1 here, buffer[index] is buffer[index + 1].                *)
(***************************************************************************)
EXTENDS Integers, Sequences, FiniteSets, TLC

\* ------------------------------------------------------------------ bounds

\* Largest pixel count of the devices on which one behaviour makes several
\* calls (MaxCalls, MaxSetters); wider devices, up to MaxWidePixels, make one.
MaxPixels == 2

\* Capacity of the BlinktSpi buffer.  The program's value is 4096
\* (lib.rs:131); the model runs the same code with a small capacity so that
\* frames longer than, equal to and shorter than the buffer all occur.
SPI_BUFFER_BYTES == 7

\* The bus transmission (1st, 2nd, ...) of one operation that the
\* environment may make fail; 0 stands for no failure.
MaxFailAt == 2

\* How many calls one behaviour makes before the device is dropped, and how
\* many of them are setter calls.
MaxCalls == 2

MaxSetters == 1

\* How many setter calls a behaviour of the setters alone makes.
MaxSetterSeq == 2

\* The transport on its own: the longest slice given to one write(), the
\* bytes written in one behaviour, and the flush() calls in one behaviour.
MaxWriteLen == 9

MaxSpiBytes == 16

MaxSpiFlushes == 2

\* The bit-bang transport on its own: the calls made in one behaviour.
MaxGpioCalls == 3

\* ------------------------------------------------------- program constants

DAT == 23

CLK == 24

NUM_PIXELS == 8

DEFAULT_BRIGHTNESS == 7

\* --------------------------------------------------------------- integers

RECURSIVE BitOr(_, _)
BitOr(a, b) ==
    IF a = 0 THEN b
    ELSE IF b = 0 THEN a
    ELSE (IF a % 2 = 1 \/ b % 2 = 1 THEN 1 ELSE 0) + 2 * BitOr(a \div 2, b \div 2)

RECURSIVE BitAnd(_, _)
BitAnd(a, b) ==
    IF a = 0 \/ b = 0 THEN 0
    ELSE (IF a % 2 = 1 /\ b % 2 = 1 THEN 1 ELSE 0) + 2 * BitAnd(a \div 2, b \div 2)

Shl(a, k) == a * 2^k

\* ------------------------------------------------------------------- f32
\* A brightness argument is an f32 given as a fraction <<num, den>> with
\* den a power of two up to 2^24 and |num| below 2^24: f32 holds it exactly.
\* Its product with 31.0 is rounded to f32 (F32Round, below).

F32Max0(x) == IF x[1] < 0 THEN <<0, 1>> ELSE x

F32Min1(x) == IF x[1] > x[2] THEN <<1, 1>> ELSE x

\* `as u8` of a float that is >= 0: truncation, saturating at 255.
F32AsU8(x) == IF x[1] \div x[2] > 255 THEN 255 ELSE x[1] \div x[2]

\* The end frame's length is computed in f32 too.  Values there are
\* numerators over 2^24: 0.94f32 is 15770583 / 2^24, the f32 nearest 0.94.
F32_0_94 == 15770583

F32Unit == 2^24

\* Round a numerator (over a power of two) to a 24-bit significand, ties to
\* even.
RECURSIVE F32Quantum(_, _)
F32Quantum(m, q) == IF m \div q < F32Unit THEN q ELSE F32Quantum(m, 2 * q)

F32Round(m) ==
    LET q  == F32Quantum(m, 1)
        lo == (m \div q) * q
        r  == m - lo
    IN  IF 2 * r < q THEN lo
        ELSE IF 2 * r > q THEN lo + q
        ELSE IF (m \div q) % 2 = 0 THEN lo ELSE lo + q

\* 31.0 * x, for x >= 0.
F32Mul31(x) == <<F32Round(31 * x[1]), x[2]>>

\* (a slip: the 4 bytes that serve the 8 pixels of a Blinkt! board, for any
\* pixel count)
EndFrameLen_fixed(num_pixels) == 4

\* (a slip: 0.5 added in place of 0.94, rounding to the nearest)
EndFrameLen_nearest(num_pixels) == 4 + (2 * num_pixels + 16) \div 32

\* (a slip: the 0.94 left out)
EndFrameLen_truncating(num_pixels) == 4 + num_pixels \div 16

\* 4 + (((num_pixels as f32 / 16.0f32) + 0.94f32) as usize).  The quotient
\* by 16.0 is exact (num_pixels / 16 is num_pixels * 2^20 over 2^24); the
\* sum is rounded to f32.
EndFrameLen(num_pixels) ==
    4 + (F32Round(num_pixels * (F32Unit \div 16) + F32_0_94) \div F32Unit)

Zeros(n) == [i \in 1..n |-> 0]

\* ----------------------------------------------------------------- Pixel
\* value: [u8; 4] = brightness, blue, green, red

\* (a slip: the colours stored in the order of the arguments)
set_rgb_in_argument_order(p, red, green, blue) ==
    [p EXCEPT ![2] = red, ![3] = green, ![4] = blue]

set_rgb(p, red, green, blue) == [p EXCEPT ![2] = blue, ![3] = green, ![4] = red]

\* (a slip: the level is not capped at 1.0 before it is scaled)
set_brightness_uncapped(p, brightness) ==
    [p EXCEPT ![1] = BitOr(224, F32AsU8(F32Mul31(F32Max0(brightness))))]

set_brightness(p, brightness) ==
    [p EXCEPT ![1] = BitOr(224, F32AsU8(F32Mul31(F32Min1(F32Max0(brightness)))))]

set_rgbb(p, red, green, blue, brightness) ==
    set_brightness(set_rgb(p, red, green, blue), brightness)

bytes(p) == p

PixelDefault == <<BitOr(224, DEFAULT_BRIGHTNESS), 0, 0, 0>>

\* ---------------------------------------------------------- SerialOutput
\* A transport is a record.  kind, pin_data, pin_clock, buffer and index
\* are the fields of BlinktGpio / BlinktSpi.  The rest records what the
\* transport did during the operation in progress:
\*   calls   the trait methods called on it, with their arguments
\*   pins    the gpio.write(pin, level) calls, in order
\*   bus     the spi.write(slice) calls, in order, each with its outcome
\*   tx      how many spi.write calls were made
\*   failAt  which of them the environment makes fail (0: none); for
\*           BlinktGpio, which gpio.write call of the operation fails in
\*           the hardware: the calls are statements, no outcome of theirs
\*           reaches BlinktGpio::write
\*   released  how often gpio.cleanup() ran on it

Level_Low == 0

Level_High == 1

BlinktGpio_with_settings(pin_data, pin_clock) ==
    [kind |-> "gpio", pin_data |-> pin_data, pin_clock |-> pin_clock,
     buffer |-> <<>>, index |-> 0,
     calls |-> <<>>,
     pins |-> << <<pin_data, Level_Low>>, <<pin_clock, Level_Low>> >>,
     bus |-> <<>>, tx |-> 0, failAt |-> 0,
     released |-> 0]

BlinktSpi_with_settings ==
    [kind |-> "spi", pin_data |-> 10, pin_clock |-> 11,
     buffer |-> Zeros(SPI_BUFFER_BYTES), index |-> 0,
     calls |-> <<>>, pins |-> <<>>, bus |-> <<>>, tx |-> 0, failAt |-> 0,
     released |-> 0]

Ok(t) == [t |-> t, res |-> "ok"]

Gpio_cleanup(t) == [t EXCEPT !.released = @ + 1]

\* (a slip: the mask runs from the lowest bit up)
Gpio_write_bit_lowest_first(t, byte, n) ==
    << IF BitAnd(byte, Shl(1, n)) > 0
       THEN <<t.pin_data, Level_High>>
       ELSE <<t.pin_data, Level_Low>>,
       <<t.pin_clock, Level_High>>,
       <<t.pin_clock, Level_Low>> >>

\* The three gpio.write calls of one pass of the inner loop, for bit n
\* (0 is the first) of byte.
Gpio_write_bit(t, byte, n) ==
    << IF BitAnd(byte, Shl(1, 7 - n)) > 0
       THEN <<t.pin_data, Level_High>>
       ELSE <<t.pin_data, Level_Low>>,
       <<t.pin_clock, Level_High>>,
       <<t.pin_clock, Level_Low>> >>

\* for byte in data { for n in 0..8 { ... } }: pass j of the loops (from 0)
\* handles bit j % 8 of byte j / 8; the passes' calls follow one another.
Gpio_write(t, data) ==
    Ok([t EXCEPT !.pins = @ \o
           [j \in 1 .. 24 * Len(data) |->
               Gpio_write_bit(t, data[((j - 1) \div 24) + 1], ((j - 1) % 24) \div 3)
                   [((j - 1) % 3) + 1]]])

Gpio_flush(t) == Ok(t)

Spi_cleanup(t) == t

\* rppal's spi.write(slice): the environment decides whether it fails.
spi_write(t, slice) ==
    LET k  == t.tx + 1
        ok == k # t.failAt
    IN  [t   |-> [t EXCEPT !.tx = k, !.bus = Append(@, [data |-> slice, ok |-> ok])],
         res |-> IF ok THEN "ok" ELSE "err"]

\* (a slip: the index is not reset)
Spi_flush_keeping_index(t) ==
    LET r == spi_write(t, SubSeq(t.buffer, 1, t.index))
    IN  IF r.res # "ok" THEN r ELSE Ok(r.t)

\* (a slip: the slice ends one byte early)
Spi_flush_short(t) ==
    LET r == spi_write(t, SubSeq(t.buffer, 1, t.index - 1))
    IN  IF r.res # "ok" THEN r
        ELSE Ok([r.t EXCEPT !.index = 0])

Spi_flush(t) ==
    LET r == spi_write(t, SubSeq(t.buffer, 1, t.index))
    IN  IF r.res # "ok" THEN r
        ELSE Ok([r.t EXCEPT !.index = 0])

\* One pass of the loop body of BlinktSpi::write.  buffer[self.index] with
\* index = SPI_BUFFER_BYTES is out of bounds: the program panics.
RECURSIVE Spi_write_from(_, _, _)
Spi_write_from(t, data, k) ==
    IF k > Len(data) THEN Ok(t)
    ELSE IF t.index >= SPI_BUFFER_BYTES THEN [t |-> t, res |-> "panic"]
    ELSE LET t1 == [t EXCEPT !.buffer[t.index + 1] = data[k], !.index = t.index + 1]
         IN  IF t1.index >= SPI_BUFFER_BYTES
             THEN LET r == Spi_flush(t1)
                  IN  IF r.res # "ok" THEN r ELSE Spi_write_from(r.t, data, k + 1)
             ELSE Spi_write_from(t1, data, k + 1)

Spi_write(t, data) == Spi_write_from(t, data, 1)

\* The calls made through Box<dyn SerialOutput>.
write(t, data) ==
    LET t0 == [t EXCEPT !.calls = Append(@, <<"write", data>>)]
    IN  IF t.kind = "gpio" THEN Gpio_write(t0, data) ELSE Spi_write(t0, data)

flush(t) ==
    LET t0 == [t EXCEPT !.calls = Append(@, <<"flush">>)]
    IN  IF t.kind = "gpio" THEN Gpio_flush(t0) ELSE Spi_flush(t0)

serial_cleanup(t) ==
    LET t0 == [t EXCEPT !.calls = Append(@, <<"cleanup">>)]
    IN  IF t.kind = "gpio" THEN Gpio_cleanup(t0) ELSE Spi_cleanup(t0)

\* ---------------------------------------------------------------- Blinkt
\* A device is a record of the fields of struct Blinkt.  A method that
\* returns Result<()> yields [d |-> the device afterwards, res |-> "ok",
\* "err" or "panic"].

Ret(d, r) == [d |-> [d EXCEPT !.serial_output = r.t], res |-> r.res]

with_settings(pin_data, pin_clock, num_pixels) ==
    [serial_output |-> BlinktGpio_with_settings(pin_data, pin_clock),
     pixels        |-> [i \in 1..num_pixels |-> PixelDefault],
     clear_on_drop |-> TRUE,
     end_frame     |-> Zeros(EndFrameLen(num_pixels))]

new == with_settings(DAT, CLK, NUM_PIXELS)

with_spi(num_pixels) ==
    [serial_output |-> BlinktSpi_with_settings,
     pixels        |-> [i \in 1..num_pixels |-> PixelDefault],
     clear_on_drop |-> TRUE,
     end_frame     |-> Zeros(EndFrameLen(num_pixels))]

set_clear_on_drop(d, clear_on_drop) == [d EXCEPT !.clear_on_drop = clear_on_drop]

\* (a slip: an index beyond the end addresses the last pixel)
set_pixel_last_when_beyond(d, pixel, red, green, blue) ==
    IF Len(d.pixels) = 0 THEN d
    ELSE IF pixel < Len(d.pixels)
    THEN [d EXCEPT !.pixels[pixel + 1] = set_rgb(@, red, green, blue)]
    ELSE [d EXCEPT !.pixels[Len(d.pixels)] = set_rgb(@, red, green, blue)]

\* self.pixels.get_mut(pixel) is None for pixel >= len: nothing happens.
set_pixel(d, pixel, red, green, blue) ==
    IF pixel < Len(d.pixels)
    THEN [d EXCEPT !.pixels[pixel + 1] = set_rgb(@, red, green, blue)]
    ELSE d

set_pixel_rgbb(d, pixel, red, green, blue, brightness) ==
    IF pixel < Len(d.pixels)
    THEN [d EXCEPT !.pixels[pixel + 1] = set_rgbb(@, red, green, blue, brightness)]
    ELSE d

set_pixel_brightness(d, pixel, brightness) ==
    IF pixel < Len(d.pixels)
    THEN [d EXCEPT !.pixels[pixel + 1] = set_brightness(@, brightness)]
    ELSE d

set_all_pixels(d, red, green, blue) ==
    [d EXCEPT !.pixels = [i \in 1..Len(@) |-> set_rgb(@[i], red, green, blue)]]

set_all_pixels_rgbb(d, red, green, blue, brightness) ==
    [d EXCEPT !.pixels = [i \in 1..Len(@) |-> set_rgbb(@[i], red, green, blue, brightness)]]

set_all_pixels_brightness(d, brightness) ==
    [d EXCEPT !.pixels = [i \in 1..Len(@) |-> set_brightness(@[i], brightness)]]

\* (a slip: the pixels are reset to their default, brightness included)
clear_to_default(d) == [d EXCEPT !.pixels = [i \in 1..Len(@) |-> PixelDefault]]

clear(d) == set_all_pixels(d, 0, 0, 0)

\* for pixel in &self.pixels { self.serial_output.write(pixel.bytes())?; }
\* The passes for pixels lo .. hi (counted from 1), in order, stopping at the
\* first write that does not return Ok: those of the first half of the
\* range, then those of the second half.
RECURSIVE show_pixels_from(_, _, _, _)
show_pixels_from(t, pixels, lo, hi) ==
    IF lo > hi THEN Ok(t)
    ELSE IF lo = hi THEN write(t, bytes(pixels[lo]))
    ELSE LET mid == (lo + hi) \div 2
             r   == show_pixels_from(t, pixels, lo, mid)
         IN  IF r.res # "ok" THEN r ELSE show_pixels_from(r.t, pixels, mid + 1, hi)

show_pixels(t, pixels) == show_pixels_from(t, pixels, 1, Len(pixels))

\* (a slip: the end frame is written before the pixels)
show_end_frame_first(d) ==
    LET r1 == write(d.serial_output, <<0, 0, 0, 0>>)
    IN  IF r1.res # "ok" THEN Ret(d, r1)
        ELSE LET r2 == write(r1.t, d.end_frame)
             IN  IF r2.res # "ok" THEN Ret(d, r2)
                 ELSE LET r3 == show_pixels(r2.t, d.pixels)
                      IN  IF r3.res # "ok" THEN Ret(d, r3)
                          ELSE Ret(d, flush(r3.t))

show(d) ==
    LET r1 == write(d.serial_output, <<0, 0, 0, 0>>)
    IN  IF r1.res # "ok" THEN Ret(d, r1)
        ELSE LET r2 == show_pixels(r1.t, d.pixels)
             IN  IF r2.res # "ok" THEN Ret(d, r2)
                 ELSE LET r3 == write(r2.t, d.end_frame)
                      IN  IF r3.res # "ok" THEN Ret(d, r3)
                          ELSE Ret(d, flush(r3.t))

\* (a slip: the pixels are cleared and shown whatever clear_on_drop is)
cleanup_always_clearing(d) ==
    LET r == show(clear(d))
    IN  IF r.res # "ok" THEN r
        ELSE [d   |-> [r.d EXCEPT !.serial_output = serial_cleanup(@)],
              res |-> "ok"]

cleanup(d) ==
    IF d.clear_on_drop
    THEN LET r == show(clear(d))
         IN  IF r.res # "ok" THEN r
             ELSE [d   |-> [r.d EXCEPT !.serial_output = serial_cleanup(@)],
                   res |-> "ok"]
    ELSE [d |-> [d EXCEPT !.serial_output = serial_cleanup(@)], res |-> "ok"]

\* self.cleanup().unwrap_or(()): an Err is discarded, a panic is not.
drop(d) ==
    LET r == cleanup(d)
    IN  [d |-> r.d, res |-> IF r.res = "panic" THEN "panic" ELSE "ok"]

\* ----------------------------------------------------------------- state

VARIABLES
    blinkt,      \* the device
    ctor,        \* the constructor that made it
    num_pixels,  \* the pixel count it was constructed with
    op,          \* the most recent operation: <<name, arguments...>>
    ret,         \* what it returned: "ok", "err" or "panic"
    before,      \* the device as it was when the most recent show(), cleanup()
                 \*   or drop began (after any other operation: as it is)
    cleaned,     \* how many explicit cleanup() calls have returned Ok
    life,        \* "active", "dropped" or "panicked"
    fuel,        \* the calls this behaviour may still make
    written,     \* transport harness: the bytes accepted by write()
    sent,        \*   and the slices transmitted since the buffer was empty
    clean,       \*   with no failure in between
    levels,      \* per pixel, the brightness argument last given for it
                 \*   (<<>>: none yet)
    colours      \* per pixel, the <<red, green, blue>> arguments last given
                 \*   for it (<<>>: none yet)

vars == <<blinkt, ctor, num_pixels, op, ret, before, cleaned, life, fuel,
          written, sent, clean, levels, colours>>

\* Inputs.
Colours == { <<255, 0, 0>>, <<0, 255, 0>> }

\* Brightness arguments: -1.0, 0.5, 1.0, 2.0, and the f32 next below 16/31
\* (0.516129017, which is 8659208 / 2^24).
Levels == { <<-1, 1>>, <<1, 2>>, <<1, 1>>, <<2, 1>>, <<8659208, 16777216>> }

\* The <<colour, brightness>> arguments of the setters that take both: every
\* level, with one colour each.
ColouredLevels ==
    { << <<255, 0, 0>>, <<1, 1>> >>, << <<0, 255, 0>>, <<1, 2>> >>,
      << <<255, 0, 0>>, <<-1, 1>> >>, << <<0, 255, 0>>, <<2, 1>> >>,
      << <<255, 0, 0>>, <<8659208, 16777216>> >> }

PinPairs == { <<5, 6>> }

\* Pixel counts beyond MaxPixels (the 8 of new() among them), for devices
\* on which this model makes one call, no setter, before the drop.
MaxWidePixels == 33

\* The pixel counts given to with_settings and with_spi: all up to
\* MaxWidePixels, and a 144-pixel strip (one metre of the densest APA102).
PixelCounts == (0 .. MaxWidePixels) \cup {144}

Indices == (0 .. MaxPixels) \cup {Len(blinkt.pixels)}

FailChoices == IF blinkt.serial_output.kind = "spi" THEN 0 .. MaxFailAt ELSE {0}

\* The operation in progress starts with empty records of what it did.
Begin(d, failAt) ==
    [d EXCEPT !.serial_output.calls = <<>>, !.serial_output.pins = <<>>,
              !.serial_output.bus = <<>>, !.serial_output.tx = 0,
              !.serial_output.failAt = failAt]

StartFuel(c, n) ==
    [setters |-> IF n > MaxPixels THEN 0 ELSE MaxSetters,
     calls   |-> IF n > MaxPixels THEN 1 ELSE MaxCalls]

InitDevice(c, n, d, f) ==
    /\ blinkt = d
    /\ ctor = c
    /\ num_pixels = n
    /\ op = <<c>>
    /\ ret = "ok"
    /\ before = d
    /\ cleaned = 0
    /\ life = "active"
    /\ fuel = f
    /\ written = <<>>
    /\ sent = <<>>
    /\ clean = TRUE
    /\ levels = [i \in 1..n |-> <<>>]
    /\ colours = [i \in 1..n |-> <<>>]

InitWith(c, n, d) == InitDevice(c, n, d, StartFuel(c, n))

Init ==
    \/ InitWith("new", NUM_PIXELS, new)
    \/ \E n \in PixelCounts, p \in PinPairs :
          InitWith("with_settings", n, with_settings(p[1], p[2], n))
    \/ \E n \in PixelCounts :
          InitWith("with_spi", n, with_spi(n))

\* A setter: infallible, touches no transport.
Setter(name, d, lv, cv) ==
    /\ life = "active"
    /\ fuel.setters > 0
    /\ fuel.calls > 0
    /\ blinkt' = d
    /\ op' = name
    /\ ret' = "ok"
    /\ before' = d
    /\ fuel' = [fuel EXCEPT !.setters = @ - 1, !.calls = @ - 1]
    /\ levels' = lv
    /\ colours' = cv
    /\ UNCHANGED <<ctor, num_pixels, cleaned, life, written, sent, clean>>

LevelAt(i, l) == IF i < Len(levels) THEN [levels EXCEPT ![i + 1] = l] ELSE levels

LevelAll(l) == [i \in 1..Len(levels) |-> l]

ColourAt(i, c) == IF i < Len(colours) THEN [colours EXCEPT ![i + 1] = c] ELSE colours

ColourAll(c) == [i \in 1..Len(colours) |-> c]

SetPixel ==
    \E i \in Indices, c \in Colours :
        Setter(<<"set_pixel", i>>, set_pixel(Begin(blinkt, 0), i, c[1], c[2], c[3]),
               levels, ColourAt(i, c))

SetPixelRgbb ==
    \E i \in Indices, a \in ColouredLevels :
        Setter(<<"set_pixel_rgbb", i>>,
               set_pixel_rgbb(Begin(blinkt, 0), i, a[1][1], a[1][2], a[1][3], a[2]),
               LevelAt(i, a[2]), ColourAt(i, a[1]))

SetPixelBrightness ==
    \E i \in Indices, l \in Levels :
        Setter(<<"set_pixel_brightness", i>>,
               set_pixel_brightness(Begin(blinkt, 0), i, l), LevelAt(i, l), colours)

SetAllPixels ==
    \E c \in Colours :
        Setter(<<"set_all_pixels">>, set_all_pixels(Begin(blinkt, 0), c[1], c[2], c[3]),
               levels, ColourAll(c))

SetAllPixelsRgbb ==
    \E a \in ColouredLevels :
        Setter(<<"set_all_pixels_rgbb">>,
               set_all_pixels_rgbb(Begin(blinkt, 0), a[1][1], a[1][2], a[1][3], a[2]),
               LevelAll(a[2]), ColourAll(a[1]))

SetAllPixelsBrightness ==
    \E l \in Levels :
        Setter(<<"set_all_pixels_brightness">>,
               set_all_pixels_brightness(Begin(blinkt, 0), l), LevelAll(l), colours)

Clear == Setter(<<"clear">>, clear(Begin(blinkt, 0)), levels, ColourAll(<<0, 0, 0>>))

SetClearOnDrop ==
    \E b \in BOOLEAN :
        /\ life = "active"
        /\ fuel.calls > 0
        /\ blinkt' = set_clear_on_drop(Begin(blinkt, 0), b)
        /\ op' = <<"set_clear_on_drop", b>>
        /\ ret' = "ok"
        /\ before' = blinkt'
        /\ fuel' = [fuel EXCEPT !.calls = @ - 1]
        /\ UNCHANGED <<ctor, num_pixels, cleaned, life, written, sent, clean, levels,
                       colours>>

\* A call that reaches the transport; a panic ends the program.
Finish(name, d0, r) ==
    /\ blinkt' = r.d
    /\ op' = name
    /\ ret' = r.res
    /\ before' = d0
    /\ UNCHANGED <<ctor, num_pixels, written, sent, clean, levels, colours>>

Show ==
    \E f \in FailChoices :
        LET d0 == Begin(blinkt, f)
            r  == show(d0)
        IN  /\ life = "active"
            /\ fuel.calls > 0
            /\ Finish(<<"show">>, d0, r)
            /\ life' = IF r.res = "panic" THEN "panicked" ELSE life
            /\ fuel' = [fuel EXCEPT !.calls = @ - 1]
            /\ UNCHANGED cleaned

Cleanup ==
    \E f \in FailChoices :
        LET d0 == Begin(blinkt, f)
            r  == cleanup(d0)
        IN  /\ life = "active"
            /\ fuel.calls > 0
            /\ Finish(<<"cleanup">>, d0, r)
            /\ life' = IF r.res = "panic" THEN "panicked" ELSE life
            /\ fuel' = [fuel EXCEPT !.calls = @ - 1]
            /\ cleaned' = IF r.res = "ok" THEN cleaned + 1 ELSE cleaned

\* The device goes out of scope: Drop::drop runs, once.
Drop ==
    \E f \in FailChoices :
        LET d0 == Begin(blinkt, f)
            r  == drop(d0)
        IN  /\ life = "active"
            /\ Finish(<<"drop">>, d0, r)
            /\ life' = IF r.res = "panic" THEN "panicked" ELSE "dropped"
            /\ UNCHANGED <<cleaned, fuel>>

Next ==
    \/ SetPixel
    \/ SetPixelRgbb
    \/ SetPixelBrightness
    \/ SetAllPixels
    \/ SetAllPixelsRgbb
    \/ SetAllPixelsBrightness
    \/ Clear
    \/ SetClearOnDrop
    \/ Show
    \/ Cleanup
    \/ Drop

Spec == Init /\ [][Next]_vars

\* ------------------------------------------- the SPI transport on its own
\* BlinktSpi driven directly through the SerialOutput trait: write() with
\* slices of any length up to MaxWriteLen, and flush(), in any order.  The
\* bytes written are 1, 2, 3, ... so that each is told from the others.

InitSpi ==
    /\ blinkt = with_spi(0)
    /\ ctor = "with_spi"
    /\ num_pixels = 0
    /\ op = <<"with_spi">>
    /\ ret = "ok"
    /\ before = with_spi(0)
    /\ cleaned = 0
    /\ life = "active"
    /\ fuel = [bytes |-> MaxSpiBytes, flushes |-> MaxSpiFlushes]
    /\ written = <<>>
    /\ sent = <<>>
    /\ clean = TRUE
    /\ levels = <<>>
    /\ colours = <<>>

\* The concatenation of slices lo .. hi of a sequence of slices.
RECURSIVE FlattenFrom(_, _, _)
FlattenFrom(slices, lo, hi) ==
    IF lo > hi THEN <<>>
    ELSE IF lo = hi THEN slices[lo]
    ELSE FlattenFrom(slices, lo, (lo + hi) \div 2)
         \o FlattenFrom(slices, (lo + hi) \div 2 + 1, hi)

Flatten(slices) == FlattenFrom(slices, 1, Len(slices))

\* The slices of the spi.write calls that succeeded.
Transmitted(t) ==
    LET oks == SelectSeq(t.bus, LAMBDA b : b.ok)
    IN  [k \in 1..Len(oks) |-> oks[k].data]

SpiWrite ==
    \E len \in 1 .. MaxWriteLen, f \in 0 .. MaxFailAt :
        LET first == MaxSpiBytes - fuel.bytes
            data  == [i \in 1..len |-> first + i]
            d0    == Begin(blinkt, f)
            r     == write(d0.serial_output, data)
        IN  /\ life = "active"
            /\ len <= fuel.bytes
            /\ blinkt' = [d0 EXCEPT !.serial_output = r.t]
            /\ op' = <<"write", data>>
            /\ ret' = r.res
            /\ before' = d0
            /\ life' = IF r.res = "panic" THEN "panicked" ELSE life
            /\ fuel' = [fuel EXCEPT !.bytes = @ - len]
            /\ written' = IF r.res = "ok" THEN written \o data ELSE written
            /\ sent' = sent \o Transmitted(r.t)
            /\ clean' = (clean /\ r.res = "ok")
            /\ UNCHANGED <<ctor, num_pixels, cleaned, levels, colours>>

SpiFlush ==
    \E f \in 0 .. MaxFailAt :
        LET d0 == Begin(blinkt, f)
            r  == flush(d0.serial_output)
        IN  /\ life = "active"
            /\ fuel.flushes > 0
            /\ blinkt' = [d0 EXCEPT !.serial_output = r.t]
            /\ op' = <<"flush">>
            /\ ret' = r.res
            /\ before' = d0
            /\ fuel' = [fuel EXCEPT !.flushes = @ - 1]
            /\ written' = IF r.res = "ok" THEN <<>> ELSE written
            /\ sent' = IF r.res = "ok" THEN <<>> ELSE sent
            /\ clean' = (r.res = "ok")
            /\ UNCHANGED <<ctor, num_pixels, cleaned, life, levels, colours>>

NextSpi ==
    \/ SpiWrite
    \/ SpiFlush

SpecSpi == InitSpi /\ [][NextSpi]_vars

\* ------------------------------------- the bit-bang transport on its own
\* BlinktGpio driven directly through the SerialOutput trait: write() with
\* the empty slice, one-byte slices (no bit, each single bit, mixed bits,
\* all bits) and two-byte slices, and flush(), in any order; the
\* environment may make one pin operation of a write() fail.

GpioData ==
    {<<>>} \cup {<<b>> : b \in {0, 1, 2, 4, 8, 16, 32, 64, 128, 165, 254, 255}}
           \cup {<<a, b>> : a, b \in {0, 1, 128, 165, 255}}

InitGpio ==
    \E p \in PinPairs :
        InitDevice("with_settings", 0, with_settings(p[1], p[2], 0),
                   [calls |-> MaxGpioCalls])

GpioWrite ==
    \E data \in GpioData, f \in 0 .. MaxFailAt :
        LET d0 == Begin(blinkt, f)
            r  == write(d0.serial_output, data)
        IN  /\ life = "active"
            /\ fuel.calls > 0
            /\ blinkt' = [d0 EXCEPT !.serial_output = r.t]
            /\ op' = <<"write", data>>
            /\ ret' = r.res
            /\ before' = d0
            /\ fuel' = [fuel EXCEPT !.calls = @ - 1]
            /\ UNCHANGED <<ctor, num_pixels, cleaned, life, written, sent, clean,
                           levels, colours>>

GpioFlush ==
    LET d0 == Begin(blinkt, 0)
        r  == flush(d0.serial_output)
    IN  /\ life = "active"
        /\ fuel.calls > 0
        /\ blinkt' = [d0 EXCEPT !.serial_output = r.t]
        /\ op' = <<"flush">>
        /\ ret' = r.res
        /\ before' = d0
        /\ fuel' = [fuel EXCEPT !.calls = @ - 1]
        /\ UNCHANGED <<ctor, num_pixels, cleaned, life, written, sent, clean,
                       levels, colours>>

NextGpio ==
    \/ GpioWrite
    \/ GpioFlush

SpecGpio == InitGpio /\ [][NextGpio]_vars

\* ------------------------------------------------------ the setters alone
\* Any sequence of up to MaxSetterSeq setter calls on a freshly constructed
\* device.

SetterFuel == [setters |-> MaxSetterSeq, calls |-> MaxSetterSeq]

InitSetters ==
    \/ InitDevice("new", NUM_PIXELS, new, SetterFuel)
    \/ \E n \in 0 .. MaxPixels, p \in PinPairs :
          InitDevice("with_settings", n, with_settings(p[1], p[2], n), SetterFuel)
    \/ \E n \in 0 .. MaxPixels :
          InitDevice("with_spi", n, with_spi(n), SetterFuel)

NextSetters ==
    \/ SetPixel
    \/ SetPixelRgbb
    \/ SetPixelBrightness
    \/ SetAllPixels
    \/ SetAllPixelsRgbb
    \/ SetAllPixelsBrightness
    \/ Clear

SpecSetters == InitSetters /\ [][NextSetters]_vars

\* ------------------------------------------- a 3-pixel device, set and shown
\* A device of 3 pixels on either transport; three calls, each show() or
\* set_pixel_rgbb with any arguments, at most two of them set_pixel_rgbb.

InitScenario ==
    \/ \E p \in PinPairs :
          InitDevice("with_settings", 3, with_settings(p[1], p[2], 3),
                     [setters |-> 2, calls |-> 3])
    \/ InitDevice("with_spi", 3, with_spi(3), [setters |-> 2, calls |-> 3])

NextScenario ==
    \/ SetPixelRgbb
    \/ Show

SpecScenario == InitScenario /\ [][NextScenario]_vars

\* ------------------------------------------------------------ observation

calls == blinkt.serial_output.calls

bus == blinkt.serial_output.bus

pins == blinkt.serial_output.pins

index == blinkt.serial_output.index

released_op == op[1] \in {"cleanup", "drop"}

\* The bytes a chain of LEDs reads from the pins: the level of the data line
\* at each rising edge of the clock, eight of them to a byte, first bit
\* highest.  (A pin log that is not data, clock high, clock low throughout
\* reads as <<"malformed">>.)
ClockedBytes(t) ==
    LET n == Len(t.pins)
        wellFormed ==
            /\ n % 24 = 0
            /\ \A j \in 1..n :
                  t.pins[j][1] = (IF j % 3 = 1 THEN t.pin_data ELSE t.pin_clock)
            /\ \A j \in 1..n :
                  (j % 3 = 2 => t.pins[j][2] = Level_High)
                  /\ (j % 3 = 0 => t.pins[j][2] = Level_Low)
        bit(k) == t.pins[3 * k - 2][2]
    IN  IF ~wellFormed THEN <<"malformed">>
        ELSE [b \in 1 .. n \div 24 |->
                 128 * bit(8 * b - 7) + 64 * bit(8 * b - 6) + 32 * bit(8 * b - 5)
                 + 16 * bit(8 * b - 4) + 8 * bit(8 * b - 3) + 4 * bit(8 * b - 2)
                 + 2 * bit(8 * b - 1) + bit(8 * b)]

\* What reached the wire during the operation.
Wire(t) == IF t.kind = "gpio" THEN ClockedBytes(t) ELSE Flatten(Transmitted(t))

\* The same device contents on a freshly constructed transport of the other
\* kind, nothing failing.
Twin(d) ==
    LET t == IF d.serial_output.kind = "gpio"
             THEN BlinktSpi_with_settings
             ELSE BlinktGpio_with_settings(DAT, CLK)
    IN  Begin([d EXCEPT !.serial_output = t], 0)

\* The frame of a pixel buffer as Blinkt::show lays it out.
FrameOf(pixels, endFrame) ==
    <<0, 0, 0, 0>> \o Flatten(pixels) \o endFrame

\* ----------------------------------------------------------------- claims

\* C1: a show() that returns Ok has called the transport exactly so:
\* write(start frame of 4 zero bytes), write(the 4 bytes of pixel 0), ...,
\* write(the 4 bytes of pixel n-1), write(end frame), flush(); and then no
\* byte is left in the transport's buffer.
C1_ShowEmitsFrameThenFlushes ==
    (op[1] = "show" /\ ret = "ok") =>
        /\ calls = << <<"write", <<0, 0, 0, 0>>>> >>
                   \o [i \in 1..Len(before.pixels) |-> <<"write", before.pixels[i]>>]
                   \o << <<"write", before.end_frame>>, <<"flush">> >>
        /\ index = 0
        /\ blinkt.pixels = before.pixels

C1_Witness ==
    /\ op[1] = "show"
    /\ ret = "ok"
    /\ Len(blinkt.pixels) = 2
    /\ blinkt.serial_output.kind = "spi"
    /\ Len(bus) > 1
    /\ \E i \in 1..2 : blinkt.pixels[i] # PixelDefault

\* C2: a show() that returns Ok puts on the wire the bytes that the other
\* transport puts there for the same pixel buffer and end frame.
C2_SameWireOnBothTransports ==
    (op[1] = "show" /\ ret = "ok") =>
        Wire(blinkt.serial_output) = Wire(show(Twin(before)).d.serial_output)

\* C3: once an explicit cleanup() has returned, a later cleanup() or drop
\* returns Ok without calling the transport and without touching the pixels.
CleanedBefore == cleaned - (IF op[1] = "cleanup" /\ ret = "ok" THEN 1 ELSE 0)

C3_ReleaseFiresOnce ==
    (released_op /\ CleanedBefore >= 1) =>
        /\ ret = "ok"
        /\ calls = <<>>
        /\ blinkt.pixels = before.pixels

\* C4: a release with clear_on_drop set calls the transport's cleanup(),
\* whatever the clearing show() returned.
C4_TransportReleasedAlways ==
    (released_op /\ before.clear_on_drop) =>
        \E k \in 1..Len(calls) : calls[k] = <<"cleanup">>

\* C5: no spi.write call is given an empty slice.
C5_NoEmptyTransmission ==
    \A k \in 1..Len(bus) : bus[k].data # <<>>

\* C6: from an empty buffer, after writes of L bytes in all that returned Ok,
\* floor(L / SPI_BUFFER_BYTES) slices were transmitted, each of
\* SPI_BUFFER_BYTES bytes, together the first bytes written in their order,
\* and the remaining L mod SPI_BUFFER_BYTES bytes are the buffer's content.
C6_Chunking ==
    clean =>
        LET L == Len(written)
            full == (L \div SPI_BUFFER_BYTES) * SPI_BUFFER_BYTES
        IN  /\ Len(sent) = L \div SPI_BUFFER_BYTES
            /\ \A k \in 1..Len(sent) : Len(sent[k]) = SPI_BUFFER_BYTES
            /\ Flatten(sent) = SubSeq(written, 1, full)
            /\ index = L % SPI_BUFFER_BYTES
            /\ SubSeq(blinkt.serial_output.buffer, 1, index) = SubSeq(written, full + 1, L)
            /\ \A k \in 1..Len(bus) : bus[k].ok

C6_Witness ==
    /\ clean
    /\ op[1] = "write"
    /\ Len(op[2]) < Len(written)
    /\ Len(written) = SPI_BUFFER_BYTES + 1
    /\ Len(sent) = 1
    /\ index = 1

\* C7: the write index stays within 0 .. SPI_BUFFER_BYTES, and is 0 after a
\* flush() that returned Ok.
C7_IndexInRange ==
    /\ index \in 0 .. SPI_BUFFER_BYTES
    /\ (op[1] = "flush" /\ ret = "ok") => index = 0

C7_Witness ==
    /\ op[1] = "flush"
    /\ ret = "ok"
    /\ before.serial_output.index > 0
    /\ index = 0

\* C8: drop returns normally, whatever state the device is in.
C8_DropNeverFails ==
    op[1] = "drop" => ret = "ok"

\* C9: a release with clear_on_drop set leaves every pixel with colour bytes
\* 0 and the brightness byte it had; every pixel frame its show() hands to
\* the transport is that pixel's: brightness as before, 0, 0, 0; and unless
\* a transmission failed or the program panicked, the render is complete:
\* start frame, all the pixel frames, end frame, flush.
Cleared(pixels) == [i \in 1..Len(pixels) |-> <<pixels[i][1], 0, 0, 0>>]

RenderFailed == ret = "panic" \/ \E k \in 1..Len(bus) : ~bus[k].ok

C9_ReleaseClearsColoursOnly ==
    (released_op /\ before.clear_on_drop) =>
        /\ blinkt.pixels = Cleared(before.pixels)
        /\ \A k \in 2 .. Len(calls) :
              k <= Len(before.pixels) + 1 =>
                  calls[k] = <<"write", Cleared(before.pixels)[k - 1]>>
        /\ ~RenderFailed =>
              calls = << <<"write", <<0, 0, 0, 0>>>> >>
                      \o [i \in 1..Len(before.pixels) |->
                             <<"write", Cleared(before.pixels)[i]>>]
                      \o << <<"write", before.end_frame>>, <<"flush">>, <<"cleanup">> >>

C9_Witness ==
    /\ released_op
    /\ before.clear_on_drop
    /\ ret = "ok"
    /\ Len(before.pixels) >= 2
    /\ \E i \in 1..Len(before.pixels) :
          /\ before.pixels[i][1] # PixelDefault[1]
          /\ before.pixels[i][4] # 0
    /\ ~RenderFailed

\* C10: the end frame is 4 + floor(n/16 + 0.94) zero bytes, n >= 1 being the
\* pixel count given to the constructor, in every state of the device.
C10_EndFrame ==
    num_pixels >= 1 =>
        /\ Len(blinkt.end_frame) = 4 + (100 * num_pixels + 94 * 16) \div (100 * 16)
        /\ \A k \in 1..Len(blinkt.end_frame) : blinkt.end_frame[k] = 0
        /\ Len(blinkt.pixels) = num_pixels

C10_Witness ==
    /\ op[1] = "drop"
    /\ ctor = "with_spi"
    /\ num_pixels = 17
    /\ Len(blinkt.end_frame) = 6

\* C11 (as stated): the end frame made by the constructor has length 4 for
\* 1 pixel, 4 for 8 pixels, 5 for 16, 6 for 32 and 13 for 144.
C11_VerifyTable_AsStated ==
    /\ num_pixels = 1 => Len(blinkt.end_frame) = 4
    /\ num_pixels = 8 => Len(blinkt.end_frame) = 4
    /\ num_pixels = 16 => Len(blinkt.end_frame) = 5
    /\ num_pixels = 32 => Len(blinkt.end_frame) = 6
    /\ num_pixels = 144 => Len(blinkt.end_frame) = 13

\* C11 (amended): the end frame made by the constructor has length 5 for
\* 1 pixel, 5 for 8 pixels, 5 for 16, 6 for 32 and 13 for 144.
C11_VerifyTable ==
    /\ num_pixels = 1 => Len(blinkt.end_frame) = 5
    /\ num_pixels = 8 => Len(blinkt.end_frame) = 5
    /\ num_pixels = 16 => Len(blinkt.end_frame) = 5
    /\ num_pixels = 32 => Len(blinkt.end_frame) = 6
    /\ num_pixels = 144 => Len(blinkt.end_frame) = 13

C11_Witness ==
    /\ ctor = "new"
    /\ num_pixels = 8
    /\ op[1] = "show"
    /\ ret = "ok"
    /\ Len(blinkt.end_frame) = 5
    /\ calls[Len(calls) - 1] = <<"write", Zeros(5)>>

\* C12: the end frame clocks at least num_pixels / 2 bits after the last
\* pixel frame: 8 * length >= num_pixels / 2 for the end frame the device
\* holds; a show() that returns Ok writes it right after the last pixel
\* frame, and in bit-bang mode that write raises the clock 8 * length times.
RisingEdgesAfter(t, k) ==
    Cardinality({j \in k + 1 .. Len(t.pins) : t.pins[j] = <<t.pin_clock, Level_High>>})

C12_EndFrameClocksHalfPerPixel ==
    /\ 2 * (8 * Len(blinkt.end_frame)) >= num_pixels
    /\ (op[1] = "show" /\ ret = "ok") =>
          LET n == Len(before.pixels)
              w == calls[n + 2]
          IN  /\ n = num_pixels
              /\ w[1] = "write"
              /\ calls[n + 1] = <<"write", IF n = 0 THEN <<0, 0, 0, 0>> ELSE before.pixels[n]>>
              /\ 2 * (8 * Len(w[2])) >= n
              /\ blinkt.serial_output.kind = "gpio" =>
                    2 * RisingEdgesAfter(blinkt.serial_output, 24 * (4 + 4 * n)) >= n

C12_Witness ==
    /\ op[1] = "show"
    /\ ret = "ok"
    /\ num_pixels = 144
    /\ blinkt.serial_output.kind = "gpio"
    /\ RisingEdgesAfter(blinkt.serial_output, 24 * (4 + 4 * 144)) = 8 * 13

\* C13 (as stated): every pixel's brightness byte has top three bits 111 and
\* low five bits floor(31 * clamp(level, 0, 1)) for the level last given for
\* that pixel, 7 if none was; so a level outside [0, 1] gives the byte of
\* 0.0 or of 1.0.
Clamp01(l) == IF l[1] < 0 THEN <<0, 1>> ELSE IF l[1] > l[2] THEN <<1, 1>> ELSE l

Floor31(l) == (31 * Clamp01(l)[1]) \div Clamp01(l)[2]

C13_BrightnessByte_AsStated ==
    /\ Len(blinkt.pixels) = Len(levels)
    /\ \A i \in 1..Len(levels) :
          /\ blinkt.pixels[i][1] \div 32 = 7
          /\ blinkt.pixels[i][1] % 32 =
                (IF levels[i] = <<>> THEN 7 ELSE Floor31(levels[i]))

\* C13 (amended): the same, with the low five bits those of 31 * clamp(level,
\* 0, 1) as single-precision arithmetic gives it: floor(31 * clamp(level, 0,
\* 1)), unless that product lies within 2^-20 below the next integer, where
\* rounding of the product may give that integer.
NearNext31(l) ==
    (Floor31(l) + 1) * Clamp01(l)[2] - 31 * Clamp01(l)[1] <= Clamp01(l)[2] \div 2^20

C13_BrightnessByte ==
    /\ Len(blinkt.pixels) = Len(levels)
    /\ \A i \in 1..Len(levels) :
          /\ blinkt.pixels[i][1] \div 32 = 7
          /\ blinkt.pixels[i][1] % 32 \in
                (IF levels[i] = <<>> THEN {7}
                 ELSE IF NearNext31(levels[i])
                      THEN {Floor31(levels[i]), Floor31(levels[i]) + 1}
                      ELSE {Floor31(levels[i])})
          /\ levels[i] # <<>> /\ levels[i][1] < 0 =>
                blinkt.pixels[i][1] = set_brightness(PixelDefault, <<0, 1>>)[1]
          /\ levels[i] # <<>> /\ levels[i][1] > levels[i][2] =>
                blinkt.pixels[i][1] = set_brightness(PixelDefault, <<1, 1>>)[1]

C13_Witness ==
    /\ fuel.setters = 0
    /\ Len(levels) = 2
    /\ levels[1] = <<8659208, 16777216>> /\ blinkt.pixels[1][1] = 240
    /\ levels[2] = <<2, 1>> /\ blinkt.pixels[2] = <<255, 0, 255, 0>>

\* C14 (as stated): on a 3-pixel device, after pixel 0 was set to (255, 0, 0)
\* at brightness 1.0 and pixel 1 to (0, 255, 0) at brightness 0.5, pixel 2
\* left as constructed, a show() that returns Ok puts on the wire
\* 00 00 00 00, FF 00 00 FF, F0 00 FF 00, E7 00 00 00 and 4 zero bytes.
ScenarioSet ==
    /\ num_pixels = 3
    /\ fuel.setters = 0
    /\ levels = << <<1, 1>>, <<1, 2>>, <<>> >>
    /\ colours = << <<255, 0, 0>>, <<0, 255, 0>>, <<>> >>

C14_ScenarioWire_AsStated ==
    (ScenarioSet /\ op[1] = "show" /\ ret = "ok") =>
        Wire(blinkt.serial_output) =
            <<0, 0, 0, 0,  255, 0, 0, 255,  240, 0, 255, 0,  231, 0, 0, 0,
              0, 0, 0, 0>>

\* C14 (amended): the same scenario puts on the wire 00 00 00 00,
\* FF 00 00 FF, EF 00 FF 00, E7 00 00 00 and 5 zero bytes.
C14_ScenarioWire ==
    (ScenarioSet /\ op[1] = "show" /\ ret = "ok") =>
        Wire(blinkt.serial_output) =
            <<0, 0, 0, 0,  255, 0, 0, 255,  239, 0, 255, 0,  231, 0, 0, 0,
              0, 0, 0, 0, 0>>

C14_Witness ==
    /\ ScenarioSet
    /\ op[1] = "show"
    /\ ret = "ok"
    /\ ctor = "with_settings"
    /\ Len(pins) = 24 * 21

\* C15: a device is constructed with clear_on_drop true; set_clear_on_drop
\* sets the flag to its argument; and a release (cleanup() or drop) of a
\* device whose flag is false returns Ok, leaves the pixels as they were and
\* calls nothing on the transport but its cleanup(): no write, no flush, so
\* no pin is toggled and no slice is transmitted.
C15_ReleaseWithoutClearing ==
    /\ op[1] = ctor => blinkt.clear_on_drop
    /\ op[1] = "set_clear_on_drop" => blinkt.clear_on_drop = op[2]
    /\ (released_op /\ ~before.clear_on_drop) =>
          /\ ret = "ok"
          /\ blinkt.pixels = before.pixels
          /\ calls = << <<"cleanup">> >>
          /\ pins = <<>>
          /\ bus = <<>>
          /\ index = before.serial_output.index
          /\ blinkt.serial_output.kind = "gpio" =>
                blinkt.serial_output.released = before.serial_output.released + 1

C15_Witness ==
    /\ op[1] = "drop"
    /\ ~before.clear_on_drop
    /\ ret = "ok"
    /\ calls = << <<"cleanup">> >>
    /\ \E i \in 1..Len(blinkt.pixels) : blinkt.pixels[i][4] = 255

\* C16: a bit-bang write() of some bytes makes, for each byte in order and
\* for each of its bits from the highest to the lowest, exactly three pin
\* operations: the data pin to the bit's level, the clock pin high, the clock
\* pin low; they have all been made when write() returns, nothing is kept
\* in a buffer, and flush() makes no pin operation.
PinOpsOf(t, data) ==
    [j \in 1 .. 3 * 8 * Len(data) |->
        LET byte == data[(j - 1) \div 24 + 1]
            bit  == ((j - 1) % 24) \div 3
        IN  IF j % 3 = 1 THEN <<t.pin_data, (byte \div 2^(7 - bit)) % 2>>
            ELSE IF j % 3 = 2 THEN <<t.pin_clock, 1>>
            ELSE <<t.pin_clock, 0>>]

C16_BitBangWrite ==
    /\ op[1] = "write" =>
          /\ ret = "ok"
          /\ pins = PinOpsOf(blinkt.serial_output, op[2])
    /\ op[1] = "flush" =>
          /\ ret = "ok"
          /\ pins = <<>>
    /\ index = 0
    /\ blinkt.serial_output.buffer = <<>>
    /\ bus = <<>>

C16_Witness ==
    /\ op = <<"write", <<165, 1>>>>
    /\ before.serial_output.calls = <<>>
    /\ Len(pins) = 48
    /\ pins[1] = <<5, 1>> /\ pins[2] = <<6, 1>> /\ pins[3] = <<6, 0>>
    /\ pins[4] = <<5, 0>>
    /\ pins[46] = <<5, 1>>

\* C17: when a pin operation made by a bit-bang write() fails, that was the
\* last pin operation of the write(), and the write() returns the error.
PinOperationFailed ==
    /\ blinkt.serial_output.kind = "gpio"
    /\ blinkt.serial_output.failAt \in 1 .. Len(pins)

C18_StoreInBounds ==
    blinkt.serial_output.kind = "spi" => ret # "panic"

\* C19: the slices transmitted by a hardware-bus show() that returns Ok are,
\* end to end, the frame of the pixels as they are at that call: start
\* frame, pixel frames, end frame, and no other byte.
C19_ShowTransmitsOneFrame ==
    (blinkt.serial_output.kind = "spi" /\ op[1] = "show" /\ ret = "ok") =>
        Flatten(Transmitted(blinkt.serial_output))
            = FrameOf(before.pixels, before.end_frame)

\* C20: set_pixel, set_pixel_rgbb and set_pixel_brightness return normally
\* and leave the number of pixels, the end frame, clear_on_drop and the
\* transport (its pins or its buffer and index) as they were; with an index
\* at or beyond the pixel count they leave every pixel as it was, with a
\* valid index every pixel but the addressed one.
TransportState(d) ==
    [kind      |-> d.serial_output.kind,
     pin_data  |-> d.serial_output.pin_data,
     pin_clock |-> d.serial_output.pin_clock,
     buffer    |-> d.serial_output.buffer,
     index     |-> d.serial_output.index,
     released  |-> d.serial_output.released]

SinglePixelSetterStep ==
    op'[1] \in {"set_pixel", "set_pixel_rgbb", "set_pixel_brightness"} =>
        /\ ret' = "ok"
        /\ life' = life
        /\ Len(blinkt'.pixels) = Len(blinkt.pixels)
        /\ blinkt'.end_frame = blinkt.end_frame
        /\ blinkt'.clear_on_drop = blinkt.clear_on_drop
        /\ TransportState(blinkt') = TransportState(blinkt)
        /\ blinkt'.serial_output.pins = <<>>
        /\ blinkt'.serial_output.bus = <<>>
        /\ op'[2] >= Len(blinkt.pixels) => blinkt'.pixels = blinkt.pixels
        /\ \A k \in 1..Len(blinkt.pixels) :
              k # op'[2] + 1 => blinkt'.pixels[k] = blinkt.pixels[k]

C20_SinglePixelSetterFrame == [][SinglePixelSetterStep]_vars

C20_Witness ==
    /\ op = <<"set_pixel", 2>>
    /\ Len(blinkt.pixels) = 2
    /\ blinkt.serial_output.kind = "spi"
    /\ index > 0
    /\ fuel.calls = 0

====
